---- MODULE Spec2Model ----
(***************************************************************************)
(* Model of the Neo Service Layer Python runtime (runtime.py):             *)
(* create_sandbox builds the capability closures over a caller Context,    *)
(* execute_function binds them into a module object, executes the guest    *)
(* source, resolves the entry point with hasattr/getattr on the module     *)
(* and calls it with the caller's params.                                  *)
(*                                                                         *)
(* Python values are records tagged by t.  Dict objects that can be        *)
(* reached through two names (the caller's params, the fresh {} made by    *)
(* "params or {}") live in a heap and are referred to by identity.         *)
(* Timestamps are counted in units of 1 800 000 ms, the common divisor of  *)
(* the literals of get_price_history (1625097600000 = 902832 units).       *)
(***************************************************************************)
EXTENDS Integers, Sequences, FiniteSets, TLC

VARIABLES
    pc,          \* position of each invocation inside execute_function
    entry_point, \* argument entry_point of execute_function
    params,      \* argument params of execute_function
    context,     \* the Context objects, by identity
    heap,        \* contents of the dict objects reachable through params
    sandbox,     \* the dict returned by create_sandbox
    module,      \* module.__dict__ of ModuleType("user_function")
    supplied,    \* the Contexts as their callers constructed them
    callee,      \* what line 70 called, with which argument, and its return
    raised,      \* the exception raised inside the try block, and where
    outcome,     \* how execute_function left: returned value or raised exception
    logged,      \* the except block printed the error and the traceback
    lastOp,      \* the last capability operation the guest called, with its result
    lastSet,     \* per key, the value of the latest Storage.set not followed by set/delete
    steps,       \* number of guest statements executed so far
    results,     \* the outcomes of the calls each caller has made before
    main         \* the command-line wrapper: arguments, output, exit status

vars == <<pc, entry_point, params, context, supplied, heap, sandbox, module, callee,
          raised, outcome, logged, lastOp, lastSet, steps, results, main>>

\* ---------------------------------------------------------------- bounds
MaxSteps == 3
MaxCalls == 2
MaxArgv == 5

\* the invocations of execute_function, each made by its own caller
Procs == {"A", "B"}

\* ---------------------------------------------------------------- values
None == [t |-> "none"]
IntV(n) == [t |-> "int", n |-> n]
StrV(s) == [t |-> "str", s |-> s]
BoolV(b) == [t |-> "bool", b |-> b]
Ref(id) == [t |-> "dict", id |-> id]
Builtin(name) == [t |-> "builtin", name |-> name]
Fn(name) == [t |-> "function", name |-> name]
ModuleObj(name) == [t |-> "module", name |-> name]

EmptyDict == [x \in {} |-> None]

\* dict.get(key): the value, or None when the key is missing
DictGet(d, k) == IF k \in DOMAIN d THEN d[k] ELSE None

\* dict.update({key: value}) / d[key] = value
DictUpdate(d, k, v) == [x \in (DOMAIN d) \cup {k} |-> IF x = k THEN v ELSE d[x]]

\* the dict left by dict.pop(key, None)
DictPop(d, k) == [x \in (DOMAIN d) \ {k} |-> d[x]]

\* Python truth value of v ("params or {}")
Truthy(v, h) ==
    CASE v.t = "none" -> FALSE
      [] v.t = "int" -> v.n # 0
      [] v.t = "str" -> v.s # ""
      [] v.t = "bool" -> v.b
      [] v.t = "dict" -> DOMAIN h[v.id] # {}
      [] OTHER -> TRUE

\* callable(v)
Callable(v) == v.t \in {"function", "builtin"}

\* ---------------------------------------------------------------- inputs
Keys == {"k1", "k2"}
Vals == {None, IntV(1)}
SecretNames == {"s1", "s2"}
EntryPoints == {"handler", "missing_fn", "print", "params", "neo_service", "__class__"}

\* names a guest source may bind at module level
GuestNames == {"handler", "__class__"}

\* exceptions a guest statement may raise: ValueError is an Exception,
\* SystemExit is a BaseException that "except Exception" does not catch
GuestExc == {"ValueError", "SystemExit"}
ExceptionClasses == {"Exception", "ValueError", "TypeError", "SyntaxError"}

\* the params a caller passes: null, a string, an empty mapping, {"x": 41}
ParamsInputs ==
    { [val |-> None, heap |-> EmptyDict],
      [val |-> StrV("s"), heap |-> EmptyDict],
      [val |-> Ref("P"), heap |-> [o \in {"P"} |-> EmptyDict]],
      [val |-> Ref("P"), heap |-> [o \in {"P"} |-> [x \in {"x"} |-> IntV(41)]]] }

StorageInputs ==
    { EmptyDict, [k \in {"k1"} |-> IntV(1)] }

SecretsInputs == { [n \in {"s1"} |-> StrV("sv")] }

\* the Contexts a caller constructs (json.loads of context_json, default "{}"):
\* a dict with or without a "storage" mapping and with or without "secrets"
Contexts ==
    { EmptyDict }
    \cup { [f \in {"storage"} |-> st] : st \in StorageInputs }
    \cup { [f \in {"secrets"} |-> se] : se \in SecretsInputs }
    \cup { [f \in {"storage", "secrets"} |-> IF f = "storage" THEN st ELSE se] :
             st \in StorageInputs, se \in SecretsInputs }

\* ---------------------------------------------------------------- create_sandbox
\* the operations of the five capability groups of sandbox["neo_service"]
Groups ==
    [ storage |-> {"get", "set", "delete"},
      secrets |-> {"get"},
      blockchain |-> {"invoke_read", "invoke_write"},
      price_feed |-> {"get_price", "get_price_history"},
      events |-> {"register", "unregister"} ]

\* variant: the lambdas close over one Context shared by every sandbox
NeoServiceShared(c) == [t |-> "caps", ctx |-> "A", groups |-> Groups]

\* sandbox["neo_service"]: the lambdas close over the context argument c
NeoService(c) == [t |-> "caps", ctx |-> c, groups |-> Groups]

\* "params or {}": the caller's value when truthy, else a fresh empty dict "E"
SandboxParams(p, h) == IF Truthy(p, h) THEN p ELSE Ref("E")

\* the heap after create_sandbox: "params or {}" allocates {} when params is falsy
SandboxHeap(p, h) ==
    IF Truthy(p, h) THEN h
    ELSE [o \in (DOMAIN h) \cup {"E"} |-> IF o = "E" THEN EmptyDict ELSE h[o]]

\* the dict create_sandbox returns for params p (with heap h) and context c
SandboxDict(p, h, c) ==
    [n \in {"print", "params", "neo_service"} |->
        CASE n = "print" -> Builtin("print")
          [] n = "params" -> SandboxParams(p, h)
          [] OTHER -> NeoService(c)]

\* ---------------------------------------------------------------- module object
\* module.__dict__ right after ModuleType("user_function")
ModuleInit ==
    [n \in {"__name__", "__doc__", "__package__", "__loader__", "__spec__"} |->
        IF n = "__name__" THEN StrV("user_function") ELSE None]

\* for key, value in sandbox.items(): setattr(module, key, value)
SetAttrs(m, sb) ==
    [n \in (DOMAIN m) \cup (DOMAIN sb) |-> IF n \in DOMAIN sb THEN sb[n] ELSE m[n]]

\* exec(code, module.__dict__) inserts __builtins__ into the globals it is given
WithBuiltins(m) ==
    [n \in (DOMAIN m) \cup {"__builtins__"} |->
        IF n = "__builtins__" THEN ModuleObj("builtins") ELSE m[n]]

\* attributes that type(module) defines as data descriptors: they win over
\* module.__dict__ in attribute lookup; __class__ is the class ModuleType
TypeDescriptors == [n \in {"__class__"} |-> Builtin("module")]

\* hasattr(module, name)
HasAttr(m, n) == n \in DOMAIN TypeDescriptors \/ n \in DOMAIN m

\* getattr(module, name), when hasattr(module, name)
GetAttr(m, n) == IF n \in DOMAIN TypeDescriptors THEN TypeDescriptors[n] ELSE m[n]

\* variant: the check forgets callable()
ResolvesAny(m, n) == HasAttr(m, n)

\* line 66: the entry point passes the check
Resolves(m, n) == HasAttr(m, n) /\ Callable(GetAttr(m, n))

\* ---------------------------------------------------------------- records
NoCall == [called |-> FALSE, fn |-> None, arg |-> None, ret |-> None]
NoExc == [exc |-> "-", at |-> "-"]
NoOutcome == [kind |-> "none", value |-> None, exc |-> "-"]
Returned(v) == [kind |-> "return", value |-> v, exc |-> "-"]
Raised(e) == [kind |-> "raise", value |-> None, exc |-> e]
\* a capability call: group, operation, arguments, result, and the number n of
\* the guest statement that made it
NoOp == [grp |-> "-", op |-> "-", key |-> "-", val |-> None, ret |-> None, n |-> 0]
Op(g, o, k, v, r, n) == [grp |-> g, op |-> o, key |-> k, val |-> v, ret |-> r, n |-> n]

\* the command-line wrapper is not in use: execute_function is called directly
NoMain == [pc |-> "none", argc |-> 0, read |-> FALSE, stdout |-> << >>, status |-> -1]

\* ---------------------------------------------------------------- Init
Init ==
    /\ pc = [i \in Procs |-> IF i = "A" THEN "start" ELSE "idle"]
    /\ entry_point \in [Procs -> EntryPoints]
    /\ entry_point["B"] = "handler"
    /\ \E pin \in [Procs -> ParamsInputs] :
          /\ pin["B"].val = None
          /\ params = [i \in Procs |-> pin[i].val]
          /\ heap = [i \in Procs |-> pin[i].heap]
    /\ context \in [Procs -> Contexts]
    /\ context["B"] = EmptyDict
    /\ supplied = context
    /\ sandbox = [i \in Procs |-> EmptyDict]
    /\ module = [i \in Procs |-> EmptyDict]
    /\ callee = [i \in Procs |-> NoCall]
    /\ raised = [i \in Procs |-> NoExc]
    /\ outcome = [i \in Procs |-> NoOutcome]
    /\ logged = [i \in Procs |-> FALSE]
    /\ lastOp = [i \in Procs |-> NoOp]
    /\ lastSet = [i \in Procs |-> EmptyDict]
    /\ steps = [i \in Procs |-> 0]
    /\ results = [i \in Procs |-> << >>]
    /\ main = NoMain

\* ---------------------------------------------------------------- execute_function
\* the Context object the caller of invocation i passes as context
ContextArg(i) == i

\* an exception e leaves the statement of the try block that is executing
Raise(i, e) ==
    /\ raised' = [raised EXCEPT ![i] = [exc |-> e, at |-> pc[i]]]
    /\ pc' = [pc EXCEPT ![i] = "except"]
    /\ UNCHANGED <<outcome, logged>>

\* variant: the except block restores the Context before raising again
ExceptRollsBack(i) ==
    /\ pc[i] = "except"
    /\ raised[i].exc \in ExceptionClasses
    /\ logged' = [logged EXCEPT ![i] = TRUE]
    /\ outcome' = [outcome EXCEPT ![i] = Raised(raised[i].exc)]
    /\ context' = [context EXCEPT ![i] = supplied[i]]
    /\ pc' = [pc EXCEPT ![i] = "done"]
    /\ UNCHANGED <<entry_point, params, supplied, heap, sandbox, module,
                   callee, raised, lastOp, lastSet, steps, results, main>>

\* variant: the except block swallows the error and returns None
ExceptReturnsNone(i) ==
    /\ pc[i] = "except"
    /\ raised[i].exc \in ExceptionClasses
    /\ logged' = [logged EXCEPT ![i] = TRUE]
    /\ outcome' = [outcome EXCEPT ![i] = Returned(None)]
    /\ pc' = [pc EXCEPT ![i] = "done"]
    /\ UNCHANGED <<entry_point, params, context, supplied, heap, sandbox, module,
                   callee, raised, lastOp, lastSet, steps, results, main>>

\* lines 72-75: an Exception is printed with its traceback and raised again
Except(i) ==
    /\ pc[i] = "except"
    /\ raised[i].exc \in ExceptionClasses
    /\ logged' = [logged EXCEPT ![i] = TRUE]
    /\ outcome' = [outcome EXCEPT ![i] = Raised(raised[i].exc)]
    /\ pc' = [pc EXCEPT ![i] = "done"]
    /\ UNCHANGED <<entry_point, params, context, supplied, heap, sandbox, module,
                   callee, raised, lastOp, lastSet, steps,
                   results, main>>

\* line 72: a BaseException that is no Exception passes the except clause
Propagate(i) ==
    /\ pc[i] = "except"
    /\ raised[i].exc \notin ExceptionClasses
    /\ outcome' = [outcome EXCEPT ![i] = Raised(raised[i].exc)]
    /\ pc' = [pc EXCEPT ![i] = "done"]
    /\ UNCHANGED <<entry_point, params, context, supplied, heap, sandbox, module,
                   callee, raised, logged, lastOp, lastSet, steps,
                   results, main>>

\* line 53: sandbox = create_sandbox(function_code, params, context)
CreateSandbox(i) ==
    /\ pc[i] = "start"
    /\ sandbox' = [sandbox EXCEPT ![i] = SandboxDict(params[i], heap[i], ContextArg(i))]
    /\ heap' = [heap EXCEPT ![i] = SandboxHeap(params[i], heap[i])]
    /\ pc' = [pc EXCEPT ![i] = "bind"]
    /\ UNCHANGED <<entry_point, params, context, supplied, module, callee,
                   raised, outcome, logged, lastOp, lastSet, steps,
                   results, main>>

\* variant: the module object of the previous call is kept and used again
BindModuleReused(i) ==
    /\ pc[i] = "bind"
    /\ module' = [module EXCEPT ![i] =
          SetAttrs(IF module[i] = EmptyDict THEN ModuleInit ELSE module[i], sandbox[i])]
    /\ pc' = [pc EXCEPT ![i] = "exec"]
    /\ UNCHANGED <<entry_point, params, context, supplied, heap, sandbox,
                   callee, raised, outcome, logged, lastOp, lastSet, steps,
                   results, main>>

\* lines 56-60: the module object is created and the sandbox entries are set on it
BindModule(i) ==
    /\ pc[i] = "bind"
    /\ module' = [module EXCEPT ![i] = SetAttrs(ModuleInit, sandbox[i])]
    /\ pc' = [pc EXCEPT ![i] = "exec"]
    /\ UNCHANGED <<entry_point, params, context, supplied, heap, sandbox,
                   callee, raised, outcome, logged, lastOp, lastSet, steps,
                   results, main>>

\* line 63, exec compiles the source: a source that does not compile raises
\* SyntaxError before any statement runs
ExecSyntaxError(i) ==
    /\ pc[i] = "exec"
    /\ Raise(i, "SyntaxError")
    /\ UNCHANGED <<entry_point, params, context, supplied, heap, sandbox,
                   module, callee, lastOp, lastSet, steps,
                   results, main>>

\* line 63, exec starts running the compiled source in module.__dict__
ExecBegin(i) ==
    /\ pc[i] = "exec"
    /\ module' = [module EXCEPT ![i] = WithBuiltins(@)]
    /\ pc' = [pc EXCEPT ![i] = "load"]
    /\ UNCHANGED <<entry_point, params, context, supplied, heap, sandbox,
                   callee, raised, outcome, logged, lastOp, lastSet, steps,
                   results, main>>

\* line 63, exec returns: the module-level statements ran to the end
ExecEnd(i) ==
    /\ pc[i] = "load"
    /\ pc' = [pc EXCEPT ![i] = "resolve"]
    /\ UNCHANGED <<entry_point, params, context, supplied, heap, sandbox,
                   module, callee, raised, outcome, logged, lastOp,
                   lastSet, steps,
                   results, main>>

\* lines 66-67: the entry point is no callable attribute of the module
ResolveFail(i) ==
    /\ pc[i] = "resolve"
    /\ ~Resolves(module[i], entry_point[i])
    /\ Raise(i, "Exception")
    /\ UNCHANGED <<entry_point, params, context, supplied, heap, sandbox,
                   module, callee, lastOp, lastSet, steps,
                   results, main>>

\* lines 66-67: the check passes
ResolveOk(i) ==
    /\ pc[i] = "resolve"
    /\ Resolves(module[i], entry_point[i])
    /\ pc' = [pc EXCEPT ![i] = "call"]
    /\ UNCHANGED <<entry_point, params, context, supplied, heap, sandbox,
                   module, callee, raised, outcome, logged, lastOp,
                   lastSet, steps,
                   results, main>>

\* line 70: getattr(module, entry_point)(params), the callee is a guest function
CallGuest(i) ==
    /\ pc[i] = "call"
    /\ GetAttr(module[i], entry_point[i]).t = "function"
    /\ callee' = [callee EXCEPT ![i] =
          [called |-> TRUE, fn |-> GetAttr(module[i], entry_point[i]),
           arg |-> params[i], ret |-> None]]
    /\ pc' = [pc EXCEPT ![i] = "invoke"]
    /\ UNCHANGED <<entry_point, params, context, supplied, heap, sandbox,
                   module, raised, outcome, logged, lastOp, lastSet, steps,
                   results, main>>

\* line 70, the callee is the builtin print: it prints params and returns None
CallPrint(i) ==
    /\ pc[i] = "call"
    /\ GetAttr(module[i], entry_point[i]) = Builtin("print")
    /\ callee' = [callee EXCEPT ![i] =
          [called |-> TRUE, fn |-> Builtin("print"), arg |-> params[i], ret |-> None]]
    /\ pc' = [pc EXCEPT ![i] = "returned"]
    /\ UNCHANGED <<entry_point, params, context, supplied, heap, sandbox,
                   module, raised, outcome, logged, lastOp, lastSet, steps,
                   results, main>>

\* line 70, the callee is the class ModuleType: ModuleType(params) makes a module
\* named params when params is a string
CallModuleType(i) ==
    /\ pc[i] = "call"
    /\ GetAttr(module[i], entry_point[i]) = Builtin("module")
    /\ params[i].t = "str"
    /\ callee' = [callee EXCEPT ![i] =
          [called |-> TRUE, fn |-> Builtin("module"), arg |-> params[i],
           ret |-> ModuleObj(params[i].s)]]
    /\ pc' = [pc EXCEPT ![i] = "returned"]
    /\ UNCHANGED <<entry_point, params, context, supplied, heap, sandbox,
                   module, raised, outcome, logged, lastOp, lastSet, steps,
                   results, main>>

\* line 70, ModuleType(params) raises TypeError when params is no string
CallModuleTypeError(i) ==
    /\ pc[i] = "call"
    /\ GetAttr(module[i], entry_point[i]) = Builtin("module")
    /\ params[i].t # "str"
    /\ callee' = [callee EXCEPT ![i] =
          [called |-> TRUE, fn |-> Builtin("module"), arg |-> params[i], ret |-> None]]
    /\ Raise(i, "TypeError")
    /\ UNCHANGED <<entry_point, params, context, supplied, heap, sandbox,
                   module, lastOp, lastSet, steps,
                   results, main>>

\* lines 70-71: result = ...; return result
Return(i) ==
    /\ pc[i] = "returned"
    /\ outcome' = [outcome EXCEPT ![i] = Returned(callee[i].ret)]
    /\ pc' = [pc EXCEPT ![i] = "done"]
    /\ UNCHANGED <<entry_point, params, context, supplied, heap, sandbox,
                   module, callee, raised, logged, lastOp, lastSet, steps,
                   results, main>>

\* ---------------------------------------------------------------- capability operations
\* 1625097600000 ms in units of 1 800 000 ms, and the two offsets of the history
PriceTimestamp == 902832
HourOffset == 2
HalfHourOffset == 1

\* context.get("storage", {}): the Context's mapping, or a new empty dict
StorageView(ctx) == IF "storage" \in DOMAIN ctx THEN ctx["storage"] ELSE EmptyDict

\* context.get("secrets", {})
SecretsView(ctx) == IF "secrets" \in DOMAIN ctx THEN ctx["secrets"] ELSE EmptyDict

\* line 17: context.get("storage", {}).get(key)
StorageGetRet(ctx, k) == DictGet(StorageView(ctx), k)

\* variant: set creates the storage mapping of a Context that has none
StorageSetCtxCreates(ctx, k, v) ==
    [f \in (DOMAIN ctx) \cup {"storage"} |->
        IF f = "storage"
        THEN DictUpdate(IF "storage" \in DOMAIN ctx THEN ctx["storage"] ELSE EmptyDict, k, v)
        ELSE ctx[f]]

\* variant: set writes into the "secrets" mapping
StorageSetCtxSecrets(ctx, k, v) ==
    IF "secrets" \in DOMAIN ctx THEN [ctx EXCEPT !["secrets"] = DictUpdate(@, k, v)]
    ELSE ctx

\* line 18: .update({key: value}) changes the dict context.get returned, which is
\* the Context's own mapping only when the Context has one
StorageSetCtx(ctx, k, v) ==
    IF "storage" \in DOMAIN ctx THEN [ctx EXCEPT !["storage"] = DictUpdate(@, k, v)]
    ELSE ctx

\* line 18: update returns None, so the lambda returns "None or True"
StorageSetRet(ctx, k, v) == BoolV(TRUE)

\* variant: delete empties the whole mapping
StorageDeleteCtxClear(ctx, k) ==
    IF "storage" \in DOMAIN ctx THEN [ctx EXCEPT !["storage"] = EmptyDict]
    ELSE ctx

\* line 19: pop(key, None) removes the key from the dict context.get returned
StorageDeleteCtx(ctx, k) ==
    IF "storage" \in DOMAIN ctx THEN [ctx EXCEPT !["storage"] = DictPop(@, k)]
    ELSE ctx

\* variant: delete reports success like set does
StorageDeleteRetAlways(ctx, k) == BoolV(TRUE)

\* line 19: pop(key, None) is not None
StorageDeleteRet(ctx, k) == BoolV(DictGet(StorageView(ctx), k) # None)

\* line 23: context.get("secrets", {}).get(secret_name)
SecretsGetRet(ctx, n) == DictGet(SecretsView(ctx), n)

\* line 27
InvokeReadRet == [t |-> "result", result |-> "simulated-result"]

\* line 28
InvokeWriteRet == StrV("simulated-tx-hash")

\* line 32
GetPriceRet == [t |-> "price", price |-> 100, timestamp |-> PriceTimestamp]

\* variant: the history is listed newest first
GetPriceHistoryRetNewestFirst ==
    [t |-> "list", items |->
        << [price |-> 102, timestamp |-> PriceTimestamp],
           [price |-> 101, timestamp |-> PriceTimestamp - HalfHourOffset],
           [price |-> 100, timestamp |-> PriceTimestamp - HourOffset] >>]

\* lines 33-37
GetPriceHistoryRet ==
    [t |-> "list", items |->
        << [price |-> 100, timestamp |-> PriceTimestamp - HourOffset],
           [price |-> 101, timestamp |-> PriceTimestamp - HalfHourOffset],
           [price |-> 102, timestamp |-> PriceTimestamp] >>]

\* line 41
RegisterRet == StrV("simulated-subscription-id")

\* line 42
UnregisterRet == BoolV(TRUE)

\* ---------------------------------------------------------------- guest statements
\* the guest source is running (module level or entry point) and may execute
\* one more statement
Running(i) == pc[i] \in {"load", "invoke"} /\ steps[i] < MaxSteps

\* the bundle the guest reaches as neo_service
Bundle(i) == module[i]["neo_service"]

\* the Context the bundle's lambdas closed over
Ctx(i) == context[Bundle(i).ctx]

\* neo_service["storage"]["get"](k)
StorageGet(i, k) ==
    /\ Running(i)
    /\ "get" \in Bundle(i).groups.storage
    /\ lastOp' = [lastOp EXCEPT ![i] = Op("storage", "get", k, None, StorageGetRet(Ctx(i), k), steps[i] + 1)]
    /\ steps' = [steps EXCEPT ![i] = @ + 1]
    /\ UNCHANGED <<pc, entry_point, params, context, supplied, heap, sandbox,
                   module, callee, raised, outcome, logged, lastSet,
                   results, main>>

\* neo_service["storage"]["set"](k, v)
StorageSet(i, k, v) ==
    /\ Running(i)
    /\ "set" \in Bundle(i).groups.storage
    /\ lastOp' = [lastOp EXCEPT ![i] = Op("storage", "set", k, v, StorageSetRet(Ctx(i), k, v), steps[i] + 1)]
    /\ context' = [context EXCEPT ![Bundle(i).ctx] = StorageSetCtx(@, k, v)]
    /\ lastSet' = [lastSet EXCEPT ![i] = DictUpdate(@, k, v)]
    /\ steps' = [steps EXCEPT ![i] = @ + 1]
    /\ UNCHANGED <<pc, entry_point, params, supplied, heap, sandbox, module,
                   callee, raised, outcome, logged,
                   results, main>>

\* neo_service["storage"]["delete"](k)
StorageDelete(i, k) ==
    /\ Running(i)
    /\ "delete" \in Bundle(i).groups.storage
    /\ lastOp' = [lastOp EXCEPT ![i] = Op("storage", "delete", k, None, StorageDeleteRet(Ctx(i), k), steps[i] + 1)]
    /\ context' = [context EXCEPT ![Bundle(i).ctx] = StorageDeleteCtx(@, k)]
    /\ lastSet' = [lastSet EXCEPT ![i] = DictPop(@, k)]
    /\ steps' = [steps EXCEPT ![i] = @ + 1]
    /\ UNCHANGED <<pc, entry_point, params, supplied, heap, sandbox, module,
                   callee, raised, outcome, logged,
                   results, main>>

\* neo_service["secrets"]["get"](n)
SecretsGet(i, n) ==
    /\ Running(i)
    /\ "get" \in Bundle(i).groups.secrets
    /\ lastOp' = [lastOp EXCEPT ![i] = Op("secrets", "get", n, None, SecretsGetRet(Ctx(i), n), steps[i] + 1)]
    /\ steps' = [steps EXCEPT ![i] = @ + 1]
    /\ UNCHANGED <<pc, entry_point, params, context, supplied, heap, sandbox,
                   module, callee, raised, outcome, logged, lastSet,
                   results, main>>

\* neo_service["blockchain"]["invoke_read"](script_hash, operation, args)
InvokeRead(i) ==
    /\ Running(i)
    /\ "invoke_read" \in Bundle(i).groups.blockchain
    /\ lastOp' = [lastOp EXCEPT ![i] = Op("blockchain", "invoke_read", "-", None, InvokeReadRet, steps[i] + 1)]
    /\ steps' = [steps EXCEPT ![i] = @ + 1]
    /\ UNCHANGED <<pc, entry_point, params, context, supplied, heap, sandbox,
                   module, callee, raised, outcome, logged, lastSet,
                   results, main>>

\* neo_service["blockchain"]["invoke_write"](script_hash, operation, args)
InvokeWrite(i) ==
    /\ Running(i)
    /\ "invoke_write" \in Bundle(i).groups.blockchain
    /\ lastOp' = [lastOp EXCEPT ![i] = Op("blockchain", "invoke_write", "-", None, InvokeWriteRet, steps[i] + 1)]
    /\ steps' = [steps EXCEPT ![i] = @ + 1]
    /\ UNCHANGED <<pc, entry_point, params, context, supplied, heap, sandbox,
                   module, callee, raised, outcome, logged, lastSet,
                   results, main>>

\* neo_service["price_feed"]["get_price"](symbol)
GetPrice(i) ==
    /\ Running(i)
    /\ "get_price" \in Bundle(i).groups.price_feed
    /\ lastOp' = [lastOp EXCEPT ![i] = Op("price_feed", "get_price", "-", None, GetPriceRet, steps[i] + 1)]
    /\ steps' = [steps EXCEPT ![i] = @ + 1]
    /\ UNCHANGED <<pc, entry_point, params, context, supplied, heap, sandbox,
                   module, callee, raised, outcome, logged, lastSet,
                   results, main>>

\* neo_service["price_feed"]["get_price_history"](symbol)
GetPriceHistory(i) ==
    /\ Running(i)
    /\ "get_price_history" \in Bundle(i).groups.price_feed
    /\ lastOp' = [lastOp EXCEPT ![i] = Op("price_feed", "get_price_history", "-", None, GetPriceHistoryRet, steps[i] + 1)]
    /\ steps' = [steps EXCEPT ![i] = @ + 1]
    /\ UNCHANGED <<pc, entry_point, params, context, supplied, heap, sandbox,
                   module, callee, raised, outcome, logged, lastSet,
                   results, main>>

\* the guest function passed to register as callback_function
Callback == Fn("on_event")

\* variant: register calls the callback it is given
EventsRegisterInvokes(i) ==
    /\ Running(i)
    /\ "register" \in Bundle(i).groups.events
    /\ lastOp' = [lastOp EXCEPT ![i] = Op("events", "register", "-", Callback, RegisterRet, steps[i] + 1)]
    /\ callee' = [callee EXCEPT ![i] =
          [called |-> TRUE, fn |-> Callback, arg |-> None, ret |-> None]]
    /\ steps' = [steps EXCEPT ![i] = @ + 1]
    /\ UNCHANGED <<pc, entry_point, params, context, supplied, heap, sandbox,
                   module, raised, outcome, logged, lastSet, results, main>>

\* neo_service["events"]["register"](contract_hash, event_name, callback)
EventsRegister(i) ==
    /\ Running(i)
    /\ "register" \in Bundle(i).groups.events
    /\ lastOp' = [lastOp EXCEPT ![i] = Op("events", "register", "-", Callback, RegisterRet, steps[i] + 1)]
    /\ steps' = [steps EXCEPT ![i] = @ + 1]
    /\ UNCHANGED <<pc, entry_point, params, context, supplied, heap, sandbox,
                   module, callee, raised, outcome, logged, lastSet,
                   results, main>>

\* neo_service["events"]["unregister"](subscription_id)
EventsUnregister(i) ==
    /\ Running(i)
    /\ "unregister" \in Bundle(i).groups.events
    /\ lastOp' = [lastOp EXCEPT ![i] = Op("events", "unregister", "-", None, UnregisterRet, steps[i] + 1)]
    /\ steps' = [steps EXCEPT ![i] = @ + 1]
    /\ UNCHANGED <<pc, entry_point, params, context, supplied, heap, sandbox,
                   module, callee, raised, outcome, logged, lastSet,
                   results, main>>

\* a module-level statement binds name n: "def n(params): ..." or "n = 0"
GuestDefine(i, n, v) ==
    /\ pc[i] = "load"
    /\ steps[i] < MaxSteps
    /\ module' = [module EXCEPT ![i] = DictUpdate(@, n, v)]
    /\ steps' = [steps EXCEPT ![i] = @ + 1]
    /\ UNCHANGED <<pc, entry_point, params, context, supplied, heap, sandbox,
                   callee, raised, outcome, logged, lastOp, lastSet,
                   results, main>>

\* the entry point changes the dict it received as argument: p["a"] = 1
MutateArg(i) ==
    /\ pc[i] = "invoke"
    /\ steps[i] < MaxSteps
    /\ callee[i].arg.t = "dict"
    /\ heap' = [heap EXCEPT ![i][callee[i].arg.id] = DictUpdate(@, "a", IntV(1))]
    /\ steps' = [steps EXCEPT ![i] = @ + 1]
    /\ UNCHANGED <<pc, entry_point, params, context, supplied, sandbox,
                   module, callee, raised, outcome, logged, lastOp,
                   lastSet,
                   results, main>>

\* the guest changes the dict bound to the global name params: params["b"] = 1
MutateGlobalParams(i) ==
    /\ Running(i)
    /\ module[i]["params"].t = "dict"
    /\ heap' = [heap EXCEPT ![i][module[i]["params"].id] = DictUpdate(@, "b", IntV(1))]
    /\ steps' = [steps EXCEPT ![i] = @ + 1]
    /\ UNCHANGED <<pc, entry_point, params, context, supplied, sandbox,
                   module, callee, raised, outcome, logged, lastOp,
                   lastSet,
                   results, main>>

\* a guest statement raises e, at module level or inside the entry point
GuestRaise(i, e) ==
    /\ pc[i] \in {"load", "invoke"}
    /\ Raise(i, e)
    /\ UNCHANGED <<entry_point, params, context, supplied, heap, sandbox,
                   module, callee, lastOp, lastSet, steps,
                   results, main>>

\* the values the entry point may return: a constant, None, the result of its
\* last capability call, or params["x"] + 1 when its argument has an integer "x"
ReturnValues(i) ==
    {None, IntV(7), lastOp[i].ret}
    \cup (IF /\ callee[i].arg.t = "dict"
             /\ "x" \in DOMAIN heap[i][callee[i].arg.id]
             /\ heap[i][callee[i].arg.id]["x"].t = "int"
          THEN {IntV(heap[i][callee[i].arg.id]["x"].n + 1)}
          ELSE {})

\* the entry point returns v
GuestReturn(i, v) ==
    /\ pc[i] = "invoke"
    /\ v \in ReturnValues(i)
    /\ callee' = [callee EXCEPT ![i].ret = v]
    /\ pc' = [pc EXCEPT ![i] = "returned"]
    /\ UNCHANGED <<entry_point, params, context, supplied, heap, sandbox,
                   module, raised, outcome, logged, lastOp, lastSet, steps,
                   results, main>>

\* ---------------------------------------------------------------- specification
Engine(i) ==
    \/ CreateSandbox(i)
    \/ BindModule(i)
    \/ ExecSyntaxError(i)
    \/ ExecBegin(i)
    \/ ExecEnd(i)
    \/ ResolveFail(i)
    \/ ResolveOk(i)
    \/ CallGuest(i)
    \/ CallPrint(i)
    \/ CallModuleType(i)
    \/ CallModuleTypeError(i)
    \/ Return(i)
    \/ Except(i)
    \/ Propagate(i)

StorageOps(i) ==
    \/ \E k \in Keys : StorageGet(i, k)
    \/ \E k \in Keys, v \in Vals : StorageSet(i, k, v)
    \/ \E k \in Keys : StorageDelete(i, k)

OtherOps(i) ==
    \/ \E n \in SecretNames : SecretsGet(i, n)
    \/ InvokeRead(i)
    \/ InvokeWrite(i)
    \/ GetPrice(i)
    \/ GetPriceHistory(i)
    \/ EventsRegister(i)
    \/ EventsUnregister(i)

Guest(i) ==
    \/ \E n \in GuestNames : \E v \in {Fn(n), IntV(0)} : GuestDefine(i, n, v)
    \/ MutateArg(i)
    \/ MutateGlobalParams(i)
    \/ \E e \in GuestExc : GuestRaise(i, e)
    \/ \E v \in ReturnValues(i) : GuestReturn(i, v)

Next == \E i \in Procs : Engine(i) \/ StorageOps(i) \/ OtherOps(i) \/ Guest(i)

Spec == Init /\ [][Next]_vars

\* ---------------------------------------------------------------- two invocations
\* two callers, each with a Context of its own, run execute_function at the
\* same time; their guest sources call Storage at module level
PairContexts ==
    { EmptyDict } \cup { [f \in {"storage"} |-> st] : st \in StorageInputs }

InitPair ==
    /\ pc = [i \in Procs |-> "start"]
    /\ entry_point = [i \in Procs |-> "handler"]
    /\ params = [i \in Procs |-> None]
    /\ heap = [i \in Procs |-> EmptyDict]
    /\ context \in [Procs -> PairContexts]
    /\ supplied = context
    /\ sandbox = [i \in Procs |-> EmptyDict]
    /\ module = [i \in Procs |-> EmptyDict]
    /\ callee = [i \in Procs |-> NoCall]
    /\ raised = [i \in Procs |-> NoExc]
    /\ outcome = [i \in Procs |-> NoOutcome]
    /\ logged = [i \in Procs |-> FALSE]
    /\ lastOp = [i \in Procs |-> NoOp]
    /\ lastSet = [i \in Procs |-> EmptyDict]
    /\ steps = [i \in Procs |-> 0]
    /\ results = [i \in Procs |-> << >>]
    /\ main = NoMain

NextPair ==
    \E i \in Procs :
        \/ CreateSandbox(i)
        \/ BindModule(i)
        \/ ExecBegin(i)
        \/ StorageOps(i)
        \/ ExecEnd(i)
        \/ ResolveFail(i)
        \/ Except(i)

SpecPair == InitPair /\ [][NextPair]_vars

\* ---------------------------------------------------------------- failing capability calls
\* a key no dict accepts: the list [] (unhashable), written as the text of its
\* literal
InvalidKey == "[]"

\* a value outside the interchange format: a function object of the guest
InvalidValue == Fn("handler")

\* what a call that raised e leaves in place of a return value
ErrorRet(e) == [t |-> "raise", exc |-> e]

\* line 18 with an unhashable key: the dict display {key: value} raises
\* TypeError before update is called, with or without a storage mapping
StorageSetInvalidKey(i, v) ==
    /\ Running(i)
    /\ "set" \in Bundle(i).groups.storage
    /\ lastOp' = [lastOp EXCEPT ![i] = Op("storage", "set", InvalidKey, v, ErrorRet("TypeError"), steps[i] + 1)]
    /\ steps' = [steps EXCEPT ![i] = @ + 1]
    /\ Raise(i, "TypeError")
    /\ UNCHANGED <<entry_point, params, context, supplied, heap, sandbox, module,
                   callee, lastSet, results, main>>

\* line 17 with an unhashable key: dict.get hashes the key and raises TypeError
StorageGetInvalidKey(i) ==
    /\ Running(i)
    /\ "get" \in Bundle(i).groups.storage
    /\ lastOp' = [lastOp EXCEPT ![i] = Op("storage", "get", InvalidKey, None, ErrorRet("TypeError"), steps[i] + 1)]
    /\ steps' = [steps EXCEPT ![i] = @ + 1]
    /\ Raise(i, "TypeError")
    /\ UNCHANGED <<entry_point, params, context, supplied, heap, sandbox, module,
                   callee, lastSet, results, main>>

\* line 19 with an unhashable key: pop on a non-empty dict hashes the key and
\* raises TypeError; pop on an empty dict returns the default without hashing
StorageDeleteInvalidKey(i) ==
    /\ Running(i)
    /\ "delete" \in Bundle(i).groups.storage
    /\ steps' = [steps EXCEPT ![i] = @ + 1]
    /\ IF StorageView(Ctx(i)) = EmptyDict
       THEN /\ lastOp' = [lastOp EXCEPT ![i] = Op("storage", "delete", InvalidKey, None, BoolV(FALSE), steps[i] + 1)]
            /\ UNCHANGED <<pc, raised, outcome, logged>>
       ELSE /\ lastOp' = [lastOp EXCEPT ![i] = Op("storage", "delete", InvalidKey, None, ErrorRet("TypeError"), steps[i] + 1)]
            /\ Raise(i, "TypeError")
    /\ UNCHANGED <<entry_point, params, context, supplied, heap, sandbox, module,
                   callee, lastSet, results, main>>

\* the capability calls of a guest that also passes invalid keys and values
InvalidOps(i) ==
    \/ \E v \in Vals : StorageSetInvalidKey(i, v)
    \/ StorageGetInvalidKey(i)
    \/ StorageDeleteInvalidKey(i)
    \/ \E k \in Keys : StorageSet(i, k, InvalidValue)

\* one invocation of the entry point "handler" over a Context with or without
\* a storage mapping
InitCap ==
    /\ pc = [i \in Procs |-> IF i = "A" THEN "start" ELSE "idle"]
    /\ entry_point = [i \in Procs |-> "handler"]
    /\ params = [i \in Procs |-> None]
    /\ heap = [i \in Procs |-> EmptyDict]
    /\ context \in [Procs -> PairContexts]
    /\ context["B"] = EmptyDict
    /\ supplied = context
    /\ sandbox = [i \in Procs |-> EmptyDict]
    /\ module = [i \in Procs |-> EmptyDict]
    /\ callee = [i \in Procs |-> NoCall]
    /\ raised = [i \in Procs |-> NoExc]
    /\ outcome = [i \in Procs |-> NoOutcome]
    /\ logged = [i \in Procs |-> FALSE]
    /\ lastOp = [i \in Procs |-> NoOp]
    /\ lastSet = [i \in Procs |-> EmptyDict]
    /\ steps = [i \in Procs |-> 0]
    /\ results = [i \in Procs |-> << >>]
    /\ main = NoMain

NextCap ==
    \E i \in Procs :
        \/ CreateSandbox(i)
        \/ BindModule(i)
        \/ ExecBegin(i)
        \/ GuestDefine(i, "handler", Fn("handler"))
        \/ StorageOps(i)
        \/ InvalidOps(i)
        \/ ExecEnd(i)
        \/ ResolveFail(i)
        \/ ResolveOk(i)
        \/ CallGuest(i)
        \/ GuestRaise(i, "ValueError")
        \/ \E v \in ReturnValues(i) : GuestReturn(i, v)
        \/ Return(i)
        \/ Except(i)

SpecCap == InitCap /\ [][NextCap]_vars

\* ---------------------------------------------------------------- main (command-line wrapper)
\* line 79: len(sys.argv) below which main prints the usage text
MinArgv == 4

\* line 80
UsageText == "Usage: python runtime.py <function_file> <entry_point> <params_json> [<context_json>]"

\* json.dumps accepts None, bool, int, str and containers of them; a function,
\* a builtin, a module or the capability bundle raises TypeError
JsonSerializable(v) == v.t \notin {"function", "builtin", "module", "caps"}

\* json.dumps of a scalar
JsonDumps(v) ==
    CASE v.t = "none" -> "null"
      [] v.t = "bool" -> IF v.b THEN "true" ELSE "false"
      [] v.t = "int"  -> ToString(v.n)
      [] v.t = "str"  -> "\"" \o v.s \o "\""

\* the Contexts json.loads(context_json) yields
MainContexts == { EmptyDict, [f \in {"storage"} |-> EmptyDict] }

\* lines 79-81: too few arguments, usage text and sys.exit(1)
MainUsage ==
    /\ main.pc = "argv"
    /\ main.argc < MinArgv
    /\ main' = [main EXCEPT !.pc = "exit", !.stdout = <<UsageText>>, !.status = 1]
    /\ UNCHANGED <<pc, entry_point, params, context, supplied, heap, sandbox,
                   module, callee, raised, outcome, logged, lastOp, lastSet,
                   steps, results>>

\* lines 88-89: the function file is read
MainOpen ==
    /\ main.pc = "argv"
    /\ main.argc >= MinArgv
    /\ main' = [main EXCEPT !.pc = "parse", !.read = TRUE]
    /\ UNCHANGED <<pc, entry_point, params, context, supplied, heap, sandbox,
                   module, callee, raised, outcome, logged, lastOp, lastSet,
                   steps, results>>

\* line 88: open raises (no such file); the uncaught error ends the process
MainOpenError ==
    /\ main.pc = "argv"
    /\ main.argc >= MinArgv
    /\ main' = [main EXCEPT !.pc = "exit", !.status = 1]
    /\ UNCHANGED <<pc, entry_point, params, context, supplied, heap, sandbox,
                   module, callee, raised, outcome, logged, lastOp, lastSet,
                   steps, results>>

\* lines 91-92: json.loads raises on a malformed argument
MainParseError ==
    /\ main.pc = "parse"
    /\ main' = [main EXCEPT !.pc = "exit", !.status = 1]
    /\ UNCHANGED <<pc, entry_point, params, context, supplied, heap, sandbox,
                   module, callee, raised, outcome, logged, lastOp, lastSet,
                   steps, results>>

\* lines 91-94: the arguments parse and execute_function is called
MainCall ==
    /\ main.pc = "parse"
    /\ pc["A"] = "idle"
    /\ main' = [main EXCEPT !.pc = "engine"]
    /\ pc' = [pc EXCEPT !["A"] = "start"]
    /\ UNCHANGED <<entry_point, params, context, supplied, heap, sandbox,
                   module, callee, raised, outcome, logged, lastOp, lastSet,
                   steps, results>>

\* line 95: the result is serialized and printed; the process ends with 0
MainPrint ==
    /\ main.pc = "engine"
    /\ pc["A"] = "done"
    /\ outcome["A"].kind = "return"
    /\ JsonSerializable(outcome["A"].value)
    /\ main' = [main EXCEPT !.pc = "exit", !.status = 0,
                            !.stdout = <<JsonDumps(outcome["A"].value)>>]
    /\ UNCHANGED <<pc, entry_point, params, context, supplied, heap, sandbox,
                   module, callee, raised, outcome, logged, lastOp, lastSet,
                   steps, results>>

\* line 95: json.dumps raises TypeError; the uncaught error ends the process
MainSerializationError ==
    /\ main.pc = "engine"
    /\ pc["A"] = "done"
    /\ outcome["A"].kind = "return"
    /\ ~JsonSerializable(outcome["A"].value)
    /\ main' = [main EXCEPT !.pc = "exit", !.status = 1]
    /\ UNCHANGED <<pc, entry_point, params, context, supplied, heap, sandbox,
                   module, callee, raised, outcome, logged, lastOp, lastSet,
                   steps, results>>

\* line 94: execute_function raised an Exception; the interpreter prints the
\* traceback and ends the process with 1
MainUncaught ==
    /\ main.pc = "engine"
    /\ pc["A"] = "done"
    /\ outcome["A"].kind = "raise"
    /\ outcome["A"].exc \in ExceptionClasses
    /\ main' = [main EXCEPT !.pc = "exit", !.status = 1]
    /\ UNCHANGED <<pc, entry_point, params, context, supplied, heap, sandbox,
                   module, callee, raised, outcome, logged, lastOp, lastSet,
                   steps, results>>

\* line 94: the guest's `raise SystemExit` passed the except clause of line 72;
\* the interpreter ends the process with the exit code of the exception, 0
\* when it carries none
MainSystemExit ==
    /\ main.pc = "engine"
    /\ pc["A"] = "done"
    /\ outcome["A"] = Raised("SystemExit")
    /\ main' = [main EXCEPT !.pc = "exit", !.status = 0]
    /\ UNCHANGED <<pc, entry_point, params, context, supplied, heap, sandbox,
                   module, callee, raised, outcome, logged, lastOp, lastSet,
                   steps, results>>

\* the process starts with len(sys.argv) between 1 and MaxArgv; without a
\* fifth element the Context is json.loads("{}") (line 86)
InitMain ==
    /\ pc = [i \in Procs |-> "idle"]
    /\ entry_point \in [Procs -> EntryPoints]
    /\ entry_point["B"] = "handler"
    /\ \E pin \in [Procs -> ParamsInputs] :
          /\ pin["B"].val = None
          /\ params = [i \in Procs |-> pin[i].val]
          /\ heap = [i \in Procs |-> pin[i].heap]
    /\ context \in [Procs -> MainContexts]
    /\ context["B"] = EmptyDict
    /\ supplied = context
    /\ sandbox = [i \in Procs |-> EmptyDict]
    /\ module = [i \in Procs |-> EmptyDict]
    /\ callee = [i \in Procs |-> NoCall]
    /\ raised = [i \in Procs |-> NoExc]
    /\ outcome = [i \in Procs |-> NoOutcome]
    /\ logged = [i \in Procs |-> FALSE]
    /\ lastOp = [i \in Procs |-> NoOp]
    /\ lastSet = [i \in Procs |-> EmptyDict]
    /\ steps = [i \in Procs |-> 0]
    /\ results = [i \in Procs |-> << >>]
    /\ \E n \in 1..MaxArgv :
          /\ main = [pc |-> "argv", argc |-> n, read |-> FALSE,
                     stdout |-> << >>, status |-> -1]
          /\ n <= MinArgv => context["A"] = EmptyDict

NextMain ==
    \/ MainUsage
    \/ MainOpen
    \/ MainOpenError
    \/ MainParseError
    \/ MainCall
    \/ Engine("A")
    \/ Guest("A")
    \/ MainPrint
    \/ MainSerializationError
    \/ MainUncaught
    \/ MainSystemExit

SpecMain == InitMain /\ [][NextMain]_vars

\* ---------------------------------------------------------------- successive invocations
\* names the guest sources of successive calls bind: a function or a constant
\* under the entry-point name, a replaced params, a replaced neo_service
SeqGuestNames == {"handler", "params", "neo_service"}

\* the caller received the outcome of execute_function and calls it again with
\* another guest source: the frame of the finished call is gone, the objects it
\* made (sandbox, module) are whatever lines 53 and 56 replace them with
CallAgain(i) ==
    /\ pc[i] = "done"
    /\ Len(results[i]) + 1 < MaxCalls
    /\ results' = [results EXCEPT ![i] = Append(@, outcome[i])]
    /\ pc' = [pc EXCEPT ![i] = "start"]
    /\ callee' = [callee EXCEPT ![i] = NoCall]
    /\ raised' = [raised EXCEPT ![i] = NoExc]
    /\ outcome' = [outcome EXCEPT ![i] = NoOutcome]
    /\ logged' = [logged EXCEPT ![i] = FALSE]
    /\ lastOp' = [lastOp EXCEPT ![i] = NoOp]
    /\ lastSet' = [lastSet EXCEPT ![i] = EmptyDict]
    /\ steps' = [steps EXCEPT ![i] = 0]
    /\ UNCHANGED <<entry_point, params, context, supplied, heap, sandbox, module,
                   main>>

InitSeq ==
    /\ pc = [i \in Procs |-> IF i = "A" THEN "start" ELSE "idle"]
    /\ entry_point \in [Procs -> {"handler", "missing_fn"}]
    /\ entry_point["B"] = "handler"
    /\ \E pin \in [Procs -> ParamsInputs] :
          /\ pin["B"].val = None
          /\ params = [i \in Procs |-> pin[i].val]
          /\ heap = [i \in Procs |-> pin[i].heap]
    /\ context = [i \in Procs |-> EmptyDict]
    /\ supplied = context
    /\ sandbox = [i \in Procs |-> EmptyDict]
    /\ module = [i \in Procs |-> EmptyDict]
    /\ callee = [i \in Procs |-> NoCall]
    /\ raised = [i \in Procs |-> NoExc]
    /\ outcome = [i \in Procs |-> NoOutcome]
    /\ logged = [i \in Procs |-> FALSE]
    /\ lastOp = [i \in Procs |-> NoOp]
    /\ lastSet = [i \in Procs |-> EmptyDict]
    /\ steps = [i \in Procs |-> 0]
    /\ results = [i \in Procs |-> << >>]
    /\ main = NoMain

NextSeq ==
    \E i \in Procs :
        \/ CreateSandbox(i)
        \/ BindModule(i)
        \/ ExecBegin(i)
        \/ \E n \in SeqGuestNames : \E v \in {Fn(n), IntV(0)} : GuestDefine(i, n, v)
        \/ ExecEnd(i)
        \/ ResolveFail(i)
        \/ ResolveOk(i)
        \/ CallGuest(i)
        \/ \E v \in ReturnValues(i) : GuestReturn(i, v)
        \/ Return(i)
        \/ Except(i)
        \/ CallAgain(i)

SpecSeq == InitSeq /\ [][NextSeq]_vars

\* ---------------------------------------------------------------- properties
\* a structured failure value of the given kind
IsFailure(v, kind) == v.t = "failure" /\ v.kind = kind

\* the guest source bound the entry-point name to a function of its own
GuestDefinesCallable(i) ==
    /\ entry_point[i] \in DOMAIN module[i]
    /\ module[i][entry_point[i]].t = "function"

\* exec returned: the guest source loaded without error
Loaded(i) ==
    \/ pc[i] \in {"resolve", "call", "invoke", "returned"}
    \/ pc[i] \in {"except", "done"} /\ raised[i].at \notin {"exec", "load"}

\* invocation i holds a bundle the guest can call
HasBundle(i) == "neo_service" \in DOMAIN module[i]

\* the step is statement number steps[i] + 1 of guest i calling operation o of
\* group g with key k
IsCall(i, g, o, k) ==
    /\ steps'[i] = steps[i] + 1
    /\ lastOp'[i].n = steps'[i]
    /\ lastOp'[i].grp = g
    /\ lastOp'[i].op = o
    /\ lastOp'[i].key = k

\* C1: when the entry point raises while executing, execute_function returns a
\* structured Failure of kind GuestRuntimeError and raises nothing to its caller.
C1_GuestErrorReturnedAsFailure ==
    \A i \in Procs :
        (pc[i] = "done" /\ callee[i].called /\ callee[i].fn.t = "function"
            /\ raised[i].at = "invoke")
        => /\ outcome[i].kind = "return"
           /\ IsFailure(outcome[i].value, "GuestRuntimeError")

\* C2: when the guest source loaded and does not define the entry-point name as
\* a function, nothing is called as the entry point and the invocation ends in
\* the entry-point failure (the structured Failure, or the exception of line 67
\* that stands for it), also for the names print, params and neo_service.
C2_UndefinedEntryPointNotInvoked ==
    \A i \in Procs :
        (pc[i] = "done" /\ Loaded(i) /\ ~GuestDefinesCallable(i))
        => /\ ~callee[i].called
           /\ \/ outcome[i].kind = "return"
                 /\ IsFailure(outcome[i].value, "EntryPointError")
              \/ outcome[i].kind = "raise" /\ outcome[i].exc = "Exception"

\* C3: when the guest source loaded and defines a function under the entry-point
\* name, that function is what is called, its sole argument is the caller's
\* params, and a returned result is the value that function returned.
C3_DefinedEntryPointInvoked ==
    \A i \in Procs :
        (pc[i] = "done" /\ Loaded(i) /\ GuestDefinesCallable(i))
        => /\ callee[i].called
           /\ callee[i].fn = module[i][entry_point[i]]
           /\ callee[i].arg = params[i]
           /\ outcome[i].kind = "return" => outcome[i].value = callee[i].ret

\* C4: a Storage.get(k) that follows a Storage.set(k, v) of the same invocation
\* with no set or delete of k in between returns v, for every Context.
C4_SetThenGet ==
    \A i \in Procs : \A k \in Keys :
        (lastOp[i].grp = "storage" /\ lastOp[i].op = "get" /\ lastOp[i].key = k
            /\ k \in DOMAIN lastSet[i])
        => lastOp[i].ret = lastSet[i][k]

\* C5: on a key that is not in the Context's storage, Storage.get returns None
\* (absent), Storage.delete returns False, and neither changes any Context.
C5_AbsentKey ==
    [][\A i \in Procs : \A k \in Keys :
         (HasBundle(i) /\ k \notin DOMAIN StorageView(Ctx(i)))
         => /\ IsCall(i, "storage", "get", k)
                => lastOp'[i].ret = None /\ context' = context
            /\ IsCall(i, "storage", "delete", k)
                => lastOp'[i].ret = BoolV(FALSE) /\ context' = context]_vars

\* a key of the supplied storage was deleted and the next statement, a get of
\* it, returned None
C5_Witness ==
    \E i \in Procs : \E k \in Keys :
        /\ "storage" \in DOMAIN supplied[i]
        /\ k \in DOMAIN supplied[i]["storage"]
        /\ k \notin DOMAIN StorageView(context[i])
        /\ lastOp[i] = Op("storage", "get", k, None, None, 2)

\* C6: Storage.delete(k) returns True exactly when k was in the Context's
\* storage right before the call, whatever value was stored (null included),
\* and k is absent after the call.
C6_DeleteReportsRemoval ==
    [][\A i \in Procs : \A k \in Keys :
         (HasBundle(i) /\ IsCall(i, "storage", "delete", k))
         => /\ lastOp'[i].ret = BoolV(k \in DOMAIN StorageView(Ctx(i)))
            /\ k \notin DOMAIN StorageView(context'[Bundle(i).ctx])]_vars

\* C7: after any sequence of capability operations every Context has the
\* secrets its caller supplied, and Secrets.get(n) returns the supplied value
\* of n when n is a supplied secret and None for every other name.
C7_SecretsReadOnly ==
    /\ \A c \in Procs :
         /\ ("secrets" \in DOMAIN context[c]) = ("secrets" \in DOMAIN supplied[c])
         /\ SecretsView(context[c]) = SecretsView(supplied[c])
    /\ \A i \in Procs :
         (lastOp[i].grp = "secrets" /\ lastOp[i].op = "get")
         => lastOp[i].ret =
              IF lastOp[i].key \in DOMAIN SecretsView(supplied[ContextArg(i)])
              THEN SecretsView(supplied[ContextArg(i)])[lastOp[i].key]
              ELSE None

\* after Storage writes, Secrets.get of a name that is no supplied secret
\* returned None although the Context has secrets
C7_Witness ==
    \E i \in Procs :
        /\ "secrets" \in DOMAIN supplied[i]
        /\ lastSet[i] # EmptyDict
        /\ lastOp[i].grp = "secrets"
        /\ lastOp[i].key \notin DOMAIN supplied[i]["secrets"]
        /\ lastOp[i].ret = None

\* C8: a statement of one invocation changes neither the Context of the other
\* invocation nor the result any Storage.get of the other would return.
C8_Isolation ==
    [][\A i \in Procs : \A j \in Procs \ {i} :
         steps'[j] # steps[j]
         => /\ context'[ContextArg(i)] = context[ContextArg(i)]
            /\ HasBundle(i) =>
                 \A k \in Keys :
                    StorageGetRet(context'[Bundle(i).ctx], k) = StorageGetRet(Ctx(i), k)]_vars

\* both invocations wrote to their storage and their Contexts differ: one
\* holds k2, the other got None for it
C8_Witness ==
    /\ "storage" \in DOMAIN context["A"]
    /\ "storage" \in DOMAIN context["B"]
    /\ lastSet["A"] # EmptyDict
    /\ lastSet["B"] # EmptyDict
    /\ context["A"]["storage"] # context["B"]["storage"]
    /\ "k2" \in DOMAIN context["A"]["storage"]
    /\ lastOp["B"] = Op("storage", "get", "k2", None, None, 3)

\* C9: the value create_sandbox binds as params and the value passed to the
\* entry point are the same value (the same object), for every params.
C9_SameParams ==
    \A i \in Procs :
        (callee[i].called /\ callee[i].fn.t = "function")
        => sandbox[i]["params"] = callee[i].arg

\* C10: when the guest source starts loading, the names bound in its namespace
\* are exactly neo_service, params and print, and neo_service holds exactly the
\* groups storage, secrets, blockchain, price_feed and events.
C10_NamespaceAtLoad ==
    \A i \in Procs :
        (pc[i] = "load" /\ steps[i] = 0)
        => /\ DOMAIN module[i] = {"neo_service", "params", "print"}
           /\ DOMAIN module[i]["neo_service"].groups =
                {"storage", "secrets", "blockchain", "price_feed", "events"}

\* C11: in a call that follows another call of the same caller, the namespace
\* at the start of loading holds no name the earlier guest source bound (a
\* replaced params or neo_service is the new sandbox's again), and an entry
\* point is called only if the guest source of this call defined it.
C11_NoStateBetweenCalls ==
    \A i \in Procs :
        Len(results[i]) >= 1
        => /\ (pc[i] = "load" /\ steps[i] = 0)
               => \A n \in (DOMAIN module[i]) \cap ({"handler"} \cup SeqGuestNames) :
                     n \in DOMAIN sandbox[i] /\ module[i][n] = sandbox[i][n]
           /\ pc[i] \in {"load", "resolve", "call", "invoke", "returned"}
               => sandbox[i] = SandboxDict(params[i], heap[i], ContextArg(i))
           /\ callee[i].called => steps[i] >= 1 /\ GuestDefinesCallable(i)

\* the first call returned the result of its handler; the second call, with a
\* guest source that binds nothing, fails to find the same entry point
C11_Witness ==
    \E i \in Procs :
        /\ Len(results[i]) = 1
        /\ results[i][1].kind = "return"
        /\ entry_point[i] = "handler"
        /\ pc[i] = "done"
        /\ steps[i] = 0
        /\ outcome[i] = Raised("Exception")

\* C12: an invocation that ended has exactly one outcome: a returned value,
\* which is the value line 70 received, with no error; or an error, with no
\* value; an invocation that has not ended has no outcome.
C12_ExactlyOneOutcome ==
    \A i \in Procs :
        /\ (pc[i] = "done") = (outcome[i].kind \in {"return", "raise"})
        /\ pc[i] # "done" => outcome[i] = NoOutcome
        /\ outcome[i].kind = "return"
            => /\ outcome[i].exc = "-"
               /\ raised[i] = NoExc
               /\ callee[i].called
               /\ outcome[i].value = callee[i].ret
        /\ outcome[i].kind = "raise"
            => /\ outcome[i].value = None
               /\ outcome[i].exc # "-"
               /\ outcome[i].exc = raised[i].exc

\* the entry point ran capability calls and then failed: the invocation ended
\* with the error and without a value
C12_Witness ==
    \E i \in Procs :
        /\ pc[i] = "done"
        /\ callee[i].called
        /\ callee[i].fn.t = "function"
        /\ lastOp[i].n >= 1
        /\ outcome[i] = Raised("ValueError")

\* C15: the sequence get_price_history returns has non-decreasing timestamps
\* from first to last.
C15_HistoryOldestFirst ==
    \A i \in Procs :
        (lastOp[i].grp = "price_feed" /\ lastOp[i].op = "get_price_history")
        => /\ lastOp[i].ret.t = "list"
           /\ \A a \in 1 .. Len(lastOp[i].ret.items) :
                \A b \in a .. Len(lastOp[i].ret.items) :
                   lastOp[i].ret.items[a].timestamp <= lastOp[i].ret.items[b].timestamp

\* the entry point called get_price_history and got three entries
C15_Witness ==
    \E i \in Procs :
        /\ pc[i] = "invoke"
        /\ lastOp[i].grp = "price_feed"
        /\ lastOp[i].op = "get_price_history"
        /\ Len(lastOp[i].ret.items) = 3

\* C19: no Context gains or loses a top-level field; in a Context without
\* "storage", set returns True and leaves the Context as supplied, get returns
\* None and delete returns False.
C19_NoFieldAdded ==
    /\ \A c \in Procs : DOMAIN context[c] = DOMAIN supplied[c]
    /\ \A i \in Procs :
         "storage" \notin DOMAIN supplied[ContextArg(i)]
         => /\ context[ContextArg(i)] = supplied[ContextArg(i)]
            /\ lastOp[i].grp = "storage"
                => lastOp[i].ret =
                     CASE lastOp[i].op = "set" -> BoolV(TRUE)
                       [] lastOp[i].op = "get" -> None
                       [] OTHER -> BoolV(FALSE)

\* in a Context without "storage": set(k, 1) returned True, and a later get(k)
\* returned None
C19_Witness ==
    \E i \in Procs : \E k \in Keys :
        /\ "storage" \notin DOMAIN supplied[i]
        /\ k \in DOMAIN lastSet[i]
        /\ lastSet[i][k] = IntV(1)
        /\ lastOp[i] = Op("storage", "get", k, None, None, 3)

\* the steps execute_function takes from one phase to the next (lines 53-75)
PhaseSteps ==
    { <<"start", "bind">>, <<"bind", "exec">>, <<"exec", "load">>,
      <<"load", "resolve">>, <<"resolve", "call">>, <<"call", "invoke">>,
      <<"call", "returned">>, <<"invoke", "returned">>, <<"returned", "done">>,
      <<"exec", "except">>, <<"load", "except">>, <<"resolve", "except">>,
      <<"call", "except">>, <<"invoke", "except">>, <<"except", "done">> }

\* C16: a callback passed to Events.register is never invoked: no step makes
\* the callback the function being called, a register or unregister call
\* changes nothing of the invocation but the record of the call itself (no
\* deferred work is scheduled), and once the invocation has ended nothing of it
\* runs any more.
C16_CallbackNeverInvoked ==
    [][\A i \in Procs :
          /\ callee'[i].fn # Callback
          /\ (lastOp'[i] # lastOp[i] /\ lastOp'[i].grp = "events")
                => /\ lastOp'[i].ret \in {RegisterRet, UnregisterRet}
                   /\ pc'[i] = pc[i] /\ callee'[i] = callee[i]
                   /\ module'[i] = module[i] /\ sandbox'[i] = sandbox[i]
                   /\ raised'[i] = raised[i] /\ outcome'[i] = outcome[i]
                   /\ context' = context /\ heap' = heap
          /\ pc[i] = "done"
                => /\ pc'[i] = "done" /\ callee'[i] = callee[i]
                   /\ lastOp'[i] = lastOp[i] /\ outcome'[i] = outcome[i]]_vars

\* C16 witness: an invocation that registered a callback as its last
\* capability call has ended with the entry point's return value
C16_Witness ==
    \E i \in Procs :
        /\ pc[i] = "done"
        /\ outcome[i].kind = "return"
        /\ callee[i].fn = Fn("handler")
        /\ lastOp[i].grp = "events" /\ lastOp[i].op = "register"
        /\ lastOp[i].val = Callback
        /\ lastOp[i].n = MaxSteps

\* C17: the phases of an invocation occur in the order build bundle, load,
\* resolve, invoke: every step follows PhaseSteps, the entry point is called
\* only from the call phase, only with the guest source loaded without error
\* and the name resolved to a callable attribute, at most once; a failure at
\* load or resolution leaves the entry point uncalled, and the invocation ends
\* only from the returned phase or from the except block.
C17_PhaseOrder ==
    [][\A i \in Procs :
          /\ pc'[i] # pc[i] => <<pc[i], pc'[i]>> \in PhaseSteps
          /\ pc'[i] \in {"call", "invoke", "returned"}
                => /\ raised'[i] = NoExc
                   /\ HasAttr(module'[i], entry_point'[i])
                   /\ Callable(GetAttr(module'[i], entry_point'[i]))
          /\ (callee'[i].called /\ ~callee[i].called)
                => /\ pc[i] = "call"
                   /\ callee'[i].fn = GetAttr(module[i], entry_point[i])
                   /\ Callable(callee'[i].fn)
          /\ callee[i].called
                => /\ callee'[i].called
                   /\ callee'[i].fn = callee[i].fn
                   /\ callee'[i].arg = callee[i].arg
          /\ pc'[i] \in {"start", "bind", "exec", "load", "resolve", "call"}
                => ~callee'[i].called
          /\ raised'[i].at \in {"exec", "load", "resolve"} => ~callee'[i].called
          /\ (pc'[i] = "done" /\ outcome'[i].kind = "return")
                => callee'[i].called /\ pc[i] \in {"returned", "done"}
          /\ (pc'[i] = "done" /\ callee'[i].called)
                => \/ outcome'[i] = Returned(callee'[i].ret)
                   \/ outcome'[i].kind = "raise" /\ raised'[i].at \in {"call", "invoke"}]_vars

\* C17 witness: an invocation whose guest source ran a capability call at
\* load and whose entry point then ran to its return
C17_Witness ==
    \E i \in Procs :
        /\ pc[i] = "done"
        /\ callee[i].called /\ callee[i].fn = Fn("handler")
        /\ outcome[i] = Returned(callee[i].ret)
        /\ raised[i] = NoExc
        /\ lastOp[i].grp = "price_feed" /\ lastOp[i].op = "get_price"

\* C18: storage mutations are not rolled back on failure: the steps that
\* raise, run the except block and leave execute_function change no Context,
\* so that the storage a failed invocation leaves is the storage at the
\* failure point, holding every value the guest set and did not delete.
C18_NoRollback ==
    [][\A i \in Procs :
          /\ (pc'[i] \in {"except", "done"} /\ pc[i] # "idle")
                => context' = context
          /\ (pc'[i] = "done" /\ outcome'[i].kind = "raise"
              /\ "storage" \in DOMAIN supplied[ContextArg(i)])
                => /\ "storage" \in DOMAIN context'[ContextArg(i)]
                   /\ \A k \in DOMAIN lastSet'[i] :
                        /\ k \in DOMAIN context'[ContextArg(i)]["storage"]
                        /\ context'[ContextArg(i)]["storage"][k] = lastSet'[i][k]
                   /\ \A k \in Keys :
                        (lastOp'[i] = Op("storage", "delete", k, None, BoolV(TRUE), lastOp'[i].n))
                            => k \notin DOMAIN context'[ContextArg(i)]["storage"]]_vars

\* C18 witness: a guest that set a key at load failed at entry-point
\* resolution, and the caller's storage holds the value
C18_Witness ==
    \E i \in Procs :
        /\ pc[i] = "done"
        /\ outcome[i].kind = "raise"
        /\ raised[i].at = "resolve"
        /\ supplied[ContextArg(i)] = [f \in {"storage"} |-> EmptyDict]
        /\ lastSet[i] = [k \in {"k2"} |-> IntV(1)]
        /\ context[ContextArg(i)] = [f \in {"storage"} |-> [k \in {"k2"} |-> IntV(1)]]

\* C20: storage operations are framed to their key: set(k, v) and delete(k)
\* change no Context but the one the bundle was built for, no field of it but
\* "storage" and no key of it but k; every other capability call leaves all
\* Contexts unchanged.
C20_Frame ==
    [][\A i \in Procs :
          (lastOp'[i] # lastOp[i] /\ lastOp'[i].grp # "-")
            => LET o == lastOp'[i]
                   c == Bundle(i).ctx
               IN  /\ \A d \in (DOMAIN context) \ {c} : context'[d] = context[d]
                   /\ DOMAIN context'[c] = DOMAIN context[c]
                   /\ \A f \in (DOMAIN context[c]) \ {"storage"} :
                         context'[c][f] = context[c][f]
                   /\ IF o.grp = "storage" /\ o.op \in {"set", "delete"}
                      THEN "storage" \in DOMAIN context[c]
                           => \A k \in Keys \ {o.key} :
                                /\ (k \in DOMAIN context'[c]["storage"])
                                     = (k \in DOMAIN context[c]["storage"])
                                /\ k \in DOMAIN context[c]["storage"]
                                     => context'[c]["storage"][k] = context[c]["storage"][k]
                      ELSE context' = context]_vars

\* C20 witness: delete("k1") removed k1 and left the value set under k2
C20_Witness ==
    \E i \in Procs :
        /\ HasBundle(i)
        /\ lastOp[i] = Op("storage", "delete", "k1", None, BoolV(TRUE), MaxSteps)
        /\ "storage" \in DOMAIN Ctx(i)
        /\ Ctx(i)["storage"] = [k \in {"k2"} |-> None]

\* a capability call of invocation i could not complete, or was handed a value
\* outside the interchange format
CapabilityFailed(i) ==
    \/ lastOp[i].ret = ErrorRet("TypeError")
    \/ lastOp[i].val = InvalidValue

\* C13: when a capability operation cannot complete inside an invocation
\* (Storage.set or Storage.get with an invalid key or value), the invocation
\* ends by returning a Failure of kind CapabilityError: the error is not raised
\* past execute_function.
C13_CapabilityErrorReported ==
    \A i \in Procs :
        (pc[i] = "done" /\ CapabilityFailed(i))
        => /\ outcome[i].kind = "return"
           /\ IsFailure(outcome[i].value, "CapabilityError")

\* C14: the command-line wrapper ends with status 1, without reading the
\* function file or running the engine, when fewer than 3 arguments are
\* supplied; with status 0 exactly when the engine returned and the result was
\* printed; and with a non-zero status after every failure (load, entry point,
\* guest runtime, serialization).
C14_ExitStatus ==
    main.pc = "exit"
    => /\ main.argc < MinArgv
            => main.status = 1 /\ ~main.read /\ pc["A"] = "idle"
       /\ (main.status = 0)
            = /\ pc["A"] = "done"
              /\ outcome["A"].kind = "return"
              /\ JsonSerializable(outcome["A"].value)
              /\ main.stdout = <<JsonDumps(outcome["A"].value)>>
       /\ (pc["A"] = "done" /\ outcome["A"].kind = "raise") => main.status # 0

====
